---- MODULE Spec2Model ----
(***************************************************************************)
(* A model of the two functional units of the repository:                  *)
(*   - the InputArea React widget (prompt text, attached file, drag state, *)
(*     submission gating), one action per event handler;                   *)
(*   - bringToLife (services/gemini.ts): request construction, the single  *)
(*     awaited generateContent call, and the markdown-fence cleanup.       *)
(* JavaScript values are tagged records so that null, undefined, the empty *)
(* string and real values stay distinct, and truthiness is computed the    *)
(* way the language computes it.                                           *)
(***************************************************************************)
EXTENDS Integers, Sequences, FiniteSets, TLC

\* ------------------------------------------------------------------ bounds

\* Longest response text, in tokens of ResponseTokens, the model API returns.
MaxTokens == 4

\* ------------------------------------------------------- JavaScript values

Null == [tag |-> "null", val |-> ""]
Undefined == [tag |-> "undefined", val |-> ""]
FileObj(n) == [tag |-> "file", val |-> n]

\* The File objects a picker or a drop can deliver.
Files == {FileObj("a.png"), FileObj("b.pdf")}

\* A FileList: empty (dialog dismissed, text dragged), one file, or several.
FileLists ==
    {<<>>} \cup {<<f>> : f \in Files} \cup {<<f, g>> : f \in Files, g \in Files}

\* What the textarea can hold after an edit.
Prompts == {"", "a", "ab"}

\* Keys delivered to the textarea's onKeyDown.
Keys == {"Enter", "x"}

\* ------------------------------------------------------------- the widget

VARIABLES
    prompt,        \* useState("")                       part_000:15
    file,          \* useState<File | null>(null)        part_000:16
    isDragging,    \* useState(false)                    part_000:17
    inputValue,    \* fileInputRef.current.value         part_000:18
    isGenerating,  \* prop, owned by the parent          part_000:10
    disabled,      \* prop, owned by the parent          part_000:11
    everInvoked,   \* history: onGenerate has been invoked at least once
    supplied,      \* history: content was supplied since the last invocation
    log,           \* history: the last event, the state it saw, what it called
    \* ---- bringToLife
    pc,            \* position of the one invocation followed
    args,          \* the arguments of the invocation
    request,       \* contents.parts handed to generateContent
    calls,         \* outbound generateContent calls of this invocation
    settled,       \* how the awaited promise settled
    returned,      \* the string the invocation returned
    thrown         \* the error the invocation threw

widgetVars ==
    <<prompt, file, isDragging, inputValue, isGenerating, disabled,
      everInvoked, supplied, log>>

geminiVars == <<pc, args, request, calls, settled, returned, thrown>>

vars == <<widgetVars, geminiVars>>

\* The record an event leaves in log: the event, the state the handler's
\* closure saw, and the onGenerate invocation it made (if any).
Event(ev, n, ap, af) ==
    [ev |-> ev,
     prompt |-> prompt, file |-> file,
     isGenerating |-> isGenerating, disabled |-> disabled,
     hadPrior |-> everInvoked, suppliedBefore |-> supplied,
     invoked |-> n, argPrompt |-> ap, argFile |-> af]

NoCall(ev) == Event(ev, 0, "", Undefined)

\* JavaScript truthiness of a string and of a File | null.
TruthyStr(s) == s # ""
TruthyFile(f) == f.tag = "file"

\* The file state handed on as it is, null included.
OrUndefinedKeepsNull(f) == f

\* file || undefined
OrUndefined(f) == IF TruthyFile(f) THEN f ELSE Undefined

InitWidget ==
    /\ prompt = ""
    /\ file = Null
    /\ isDragging = FALSE
    /\ inputValue = ""
    /\ isGenerating = FALSE
    /\ disabled = FALSE
    /\ everInvoked = FALSE
    /\ supplied = FALSE
    /\ log = [ev |-> "mount", prompt |-> "", file |-> Null,
              isGenerating |-> FALSE, disabled |-> FALSE,
              hadPrior |-> FALSE, suppliedBefore |-> FALSE,
              invoked |-> 0, argPrompt |-> "", argFile |-> Undefined]

\* onChange of the textarea: setPrompt(e.target.value).
handleChange(v) ==
    /\ prompt' = v
    /\ supplied' = (supplied \/ TruthyStr(v))
    /\ log' = NoCall("type")
    /\ UNCHANGED <<file, isDragging, inputValue, isGenerating, disabled,
                   everInvoked>>

\* onChange of the hidden file input. The browser has already stored the
\* selection in the input's value when the handler runs.
handleFileChange(files) ==
    /\ inputValue' = (IF Len(files) > 0 THEN files[1].val ELSE "")
    /\ IF Len(files) > 0
          THEN /\ file' = files[1]
               /\ supplied' = TRUE
          ELSE UNCHANGED <<file, supplied>>
    /\ log' = NoCall("filechange")
    /\ UNCHANGED <<prompt, isDragging, isGenerating, disabled, everInvoked>>

handleDrop(files) ==
    /\ isDragging' = FALSE
    /\ IF disabled \/ isGenerating
          THEN UNCHANGED <<file, supplied>>
          ELSE IF Len(files) > 0
                  THEN /\ file' = files[1]
                       /\ supplied' = TRUE
                  ELSE UNCHANGED <<file, supplied>>
    /\ log' = NoCall("drop")
    /\ UNCHANGED <<prompt, inputValue, isGenerating, disabled, everInvoked>>

handleDragOver ==
    /\ isDragging' = (IF ~disabled /\ ~isGenerating THEN TRUE ELSE isDragging)
    /\ log' = NoCall("dragover")
    /\ UNCHANGED <<prompt, file, inputValue, isGenerating, disabled,
                   everInvoked, supplied>>

handleDragLeave ==
    /\ isDragging' = FALSE
    /\ log' = NoCall("dragleave")
    /\ UNCHANGED <<prompt, file, inputValue, isGenerating, disabled,
                   everInvoked, supplied>>

\* The early return of handleSubmit, negated: the submit goes through.
SubmitAcceptedNoGeneratingCheck(p, f, g) == ~(~TruthyStr(p) /\ ~TruthyFile(f))

SubmitAccepted(p, f, g) == ~((~TruthyStr(p) /\ ~TruthyFile(f)) \/ g)

\* handleSubmit with the two resets dropped.
handleSubmitNoReset(ev) ==
    IF SubmitAccepted(prompt, file, isGenerating)
       THEN /\ log' = Event(ev, 1, prompt, OrUndefined(file))
            /\ everInvoked' = TRUE
            /\ supplied' = FALSE
            /\ UNCHANGED <<prompt, file, isDragging, inputValue,
                           isGenerating, disabled>>
       ELSE /\ log' = NoCall(ev)
            /\ UNCHANGED <<prompt, file, isDragging, inputValue, isGenerating,
                           disabled, everInvoked, supplied>>

handleSubmit(ev) ==
    IF SubmitAccepted(prompt, file, isGenerating)
       THEN /\ log' = Event(ev, 1, prompt, OrUndefined(file))
            /\ prompt' = ""
            /\ file' = Null
            /\ everInvoked' = TRUE
            /\ supplied' = FALSE
            /\ UNCHANGED <<isDragging, inputValue, isGenerating, disabled>>
       ELSE /\ log' = NoCall(ev)
            /\ UNCHANGED <<prompt, file, isDragging, inputValue, isGenerating,
                           disabled, everInvoked, supplied>>

\* The disabled attribute of the Gerar button.
ButtonDisabled == (~TruthyStr(prompt) /\ ~TruthyFile(file)) \/ isGenerating

\* A click on the Gerar button: a disabled button dispatches no click.
ClickSubmit ==
    IF ButtonDisabled
       THEN /\ log' = NoCall("click")
            /\ UNCHANGED <<prompt, file, isDragging, inputValue, isGenerating,
                           disabled, everInvoked, supplied>>
       ELSE handleSubmit("click")

handleKeyDown(key, shiftKey) ==
    IF key = "Enter" /\ ~shiftKey
       THEN handleSubmit("enter")
       ELSE /\ log' = NoCall("key")
            /\ UNCHANGED <<prompt, file, isDragging, inputValue, isGenerating,
                           disabled, everInvoked, supplied>>

\* The X button of the preview pill, rendered only while a file is attached.
removeFile ==
    /\ TruthyFile(file)
    /\ file' = Null
    /\ inputValue' = ""
    /\ log' = NoCall("remove")
    /\ UNCHANGED <<prompt, isDragging, isGenerating, disabled, everInvoked,
                   supplied>>

\* The parent re-renders the widget with new props.
SetProps(g, d) ==
    /\ <<g, d>> # <<isGenerating, disabled>>
    /\ isGenerating' = g
    /\ disabled' = d
    /\ log' = NoCall("props")
    /\ UNCHANGED <<prompt, file, isDragging, inputValue, everInvoked,
                   supplied>>

TypeStep == \E v \in Prompts : handleChange(v) /\ UNCHANGED geminiVars
FileChangeStep ==
    \E fl \in FileLists : handleFileChange(fl) /\ UNCHANGED geminiVars
DropStep == \E fl \in FileLists : handleDrop(fl) /\ UNCHANGED geminiVars
DragOverStep == handleDragOver /\ UNCHANGED geminiVars
DragLeaveStep == handleDragLeave /\ UNCHANGED geminiVars
ClickStep == ClickSubmit /\ UNCHANGED geminiVars
KeyStep ==
    \E k \in Keys, s \in BOOLEAN : handleKeyDown(k, s) /\ UNCHANGED geminiVars
RemoveStep == removeFile /\ UNCHANGED geminiVars
PropsStep ==
    \E g \in BOOLEAN, d \in BOOLEAN : SetProps(g, d) /\ UNCHANGED geminiVars

WidgetNext ==
    \/ TypeStep
    \/ FileChangeStep
    \/ DropStep
    \/ DragOverStep
    \/ DragLeaveStep
    \/ ClickStep
    \/ KeyStep
    \/ RemoveStep
    \/ PropsStep

\* ------------------------------------------------------------ bringToLife

Str(s) == [tag |-> "string", val |-> s]

\* Truthiness of an optional string argument (undefined and "" are falsy).
TruthyArg(v) == v.tag = "string" /\ v.val # ""

\* Argument values: prompt is a string; fileBase64 and mimeType are optional.
PromptArgs == {Str(""), Str("um app de tarefas")}
FileArgs == {Undefined, Str(""), Str("QUJD")}
MimeArgs == {Undefined, Str(""), Str("image/png")}

\* The fragments finalPrompt is concatenated from (cut short, accents dropped).
ImageContext == "[CONTEXTO DE IMAGEM]: Analise esta imagem detalhadamente. "
ImageGuess == "Pode ser um wireframe, um print de tela ou um objeto real. "
UserInstruction == "[INSTRUCAO DO USUARIO]: "
DemoInstruction == "Crie um app de demonstracao moderno e impressionante"
Important == "\nIMPORTANTE: Construa um web app totalmente interativo."

\* finalPrompt, as the sequence of the fragments appended to it.
FinalPrompt(p, f) ==
    (IF TruthyArg(f)
        THEN <<ImageContext>> \o (IF ~TruthyArg(p) THEN <<ImageGuess>> ELSE <<>>)
        ELSE <<>>)
    \o (IF TruthyArg(p)
           THEN <<UserInstruction, p.val, " ">>
           ELSE IF ~TruthyArg(f) THEN <<DemoInstruction>> ELSE <<>>)
    \o <<Important>>

TextPart(t) ==
    [kind |-> "text", text |-> t, data |-> Undefined, mimeType |-> Undefined]
InlinePart(d, m) ==
    [kind |-> "inlineData", text |-> <<>>, data |-> d, mimeType |-> m]

\* parts with the inline attachment pushed whenever file bytes are present.
PartsIgnoringMimeType(p, f, m) ==
    <<TextPart(FinalPrompt(p, f))>>
    \o (IF TruthyArg(f) THEN <<InlinePart(f, m)>> ELSE <<>>)

\* The parts array at the time of the call.
Parts(p, f, m) ==
    <<TextPart(FinalPrompt(p, f))>>
    \o (IF TruthyArg(f) /\ TruthyArg(m) THEN <<InlinePart(f, m)>> ELSE <<>>)

\* ---- response text, as a sequence of characters

\* The backtick character (a string literal cannot hold one).
Backtick == "backtick"
Fence == <<Backtick, Backtick, Backtick>>
FenceHtml == Fence \o <<"h", "t", "m", "l">>
Whitespace == {" ", "\n", "\t"}

Fallback ==
    <<"<", "!", "-", "-", " ", "F", "a", "l", "h", "a", " ", "a", "o", " ",
      "g", "e", "r", "a", "r", " ", "c", "o", "n", "t", "e", "u", "d", "o",
      " ", "-", "-", ">">>

\* What the answers of the model API are made of.
ResponseTokens == {Fence, <<"h", "t", "m", "l">>, <<"\n">>, <<"<">>}

RECURSIVE TextsUpTo(_)
TextsUpTo(n) ==
    IF n = 0
       THEN {<<>>}
       ELSE LET shorter == TextsUpTo(n - 1)
            IN  shorter \cup {t \o tok : t \in shorter, tok \in ResponseTokens}

Chars(cs) == [tag |-> "string", val |-> cs]

\* response.text: undefined when the response carries no text.
ResponseTexts == {Undefined} \cup {Chars(t) : t \in TextsUpTo(MaxTokens)}

ApiErrors == {"NetworkError", "QuotaExceeded"}

TruthyText(t) == t.tag = "string" /\ Len(t.val) > 0

StartsWith(s, p) == Len(s) >= Len(p) /\ SubSeq(s, 1, Len(p)) = p
EndsWith(s, p) ==
    Len(s) >= Len(p) /\ SubSeq(s, Len(s) - Len(p) + 1, Len(s)) = p

\* \s* at the head of s, greedy.
RECURSIVE SkipWhitespace(_)
SkipWhitespace(s) ==
    IF Len(s) > 0 /\ s[1] \in Whitespace THEN SkipWhitespace(Tail(s)) ELSE s

\* s.replace(/^<p>\s*/, '')
ReplaceHead(s, p) ==
    IF StartsWith(s, p) THEN SkipWhitespace(SubSeq(s, Len(p) + 1, Len(s))) ELSE s

\* s.replace(/```$/, ''): without the m flag $ is the end of the input only.
ReplaceTail(s) ==
    IF EndsWith(s, Fence) THEN SubSeq(s, 1, Len(s) - Len(Fence)) ELSE s

Cleanup(s) == ReplaceTail(ReplaceHead(ReplaceHead(s, FenceHtml), Fence))

Pending == [state |-> "pending", text |-> Undefined, error |-> ""]
Fulfilled(t) == [state |-> "fulfilled", text |-> t, error |-> ""]
Rejected(e) == [state |-> "rejected", text |-> Undefined, error |-> e]

InitGemini ==
    /\ pc = "idle"
    /\ args = [prompt |-> Str(""), fileBase64 |-> Undefined, mimeType |-> Undefined]
    /\ request = <<>>
    /\ calls = 0
    /\ settled = Pending
    /\ returned = Undefined
    /\ thrown = ""

\* The synchronous part of an invocation, up to the await: the prompt and
\* the parts are built and generateContent is called.
bringToLife(p, f, m) ==
    /\ pc \in {"idle", "returned", "thrown"}
    /\ args' = [prompt |-> p, fileBase64 |-> f, mimeType |-> m]
    /\ request' = Parts(p, f, m)
    /\ calls' = 1
    /\ settled' = Pending
    /\ returned' = Undefined
    /\ thrown' = ""
    /\ pc' = "awaiting"

\* The call resolves: the rest of the try block.
onFulfilled(t) ==
    /\ pc = "awaiting"
    /\ settled' = Fulfilled(t)
    /\ returned' = Chars(Cleanup(IF TruthyText(t) THEN t.val ELSE Fallback))
    /\ pc' = "returned"
    /\ UNCHANGED <<args, request, calls, thrown>>

\* A catch block that calls generateContent again.
onRejectedRetry(e) ==
    /\ pc = "awaiting"
    /\ calls < 2
    /\ settled' = Pending
    /\ calls' = calls + 1
    /\ UNCHANGED <<pc, args, request, returned, thrown>>

\* A catch block that swallows the error and returns the fallback comment.
onRejectedSwallow(e) ==
    /\ pc = "awaiting"
    /\ settled' = Rejected(e)
    /\ returned' = Chars(Fallback)
    /\ pc' = "returned"
    /\ UNCHANGED <<args, request, calls, thrown>>

\* The call rejects: the catch block logs and re-throws.
onRejected(e) ==
    /\ pc = "awaiting"
    /\ settled' = Rejected(e)
    /\ thrown' = e
    /\ pc' = "thrown"
    /\ UNCHANGED <<args, request, calls, returned>>

InvokeStep ==
    \E p \in PromptArgs, f \in FileArgs, m \in MimeArgs :
        bringToLife(p, f, m) /\ UNCHANGED widgetVars
ResolveStep == \E t \in ResponseTexts : onFulfilled(t) /\ UNCHANGED widgetVars
RejectStep == \E e \in ApiErrors : onRejected(e) /\ UNCHANGED widgetVars

GeminiNext ==
    \/ InvokeStep
    \/ ResolveStep
    \/ RejectStep

\* ------------------------------------------------------- specifications

Init == InitWidget /\ InitGemini

SpecWidget == Init /\ [][WidgetNext]_vars

SpecGemini == Init /\ [][GeminiNext]_vars

\* ---------------------------------------------------------------- claims

\* The state an event saw allowed a submit: content present, not generating.
SawSubmittable ==
    (TruthyStr(log.prompt) \/ TruthyFile(log.file)) /\ ~log.isGenerating

\* C1: onGenerate is invoked only by an event that saw a non-empty prompt or
\* an attached file, with isGenerating false; a click or an Enter in any
\* other state invokes nothing and leaves prompt and file as they were.
C1_SubmitGated ==
    /\ log.invoked > 0 => SawSubmittable
    /\ (log.ev \in {"click", "enter"} /\ ~SawSubmittable) =>
           (log.invoked = 0 /\ prompt = log.prompt /\ file = log.file)

\* An Enter pressed with text typed while a generation is running: refused.
C1_Witness ==
    /\ log.ev = "enter"
    /\ log.isGenerating
    /\ TruthyStr(log.prompt)
    /\ log.invoked = 0
    /\ prompt = log.prompt

\* C2: an accepted submit invokes onGenerate exactly once, with the prompt
\* and the file held just before it (undefined when no file is attached),
\* and leaves prompt = "" and file = null.
C2_SubmitPassesAndResets ==
    /\ (log.ev \in {"click", "enter"} /\ SawSubmittable) => log.invoked = 1
    /\ log.invoked > 0 =>
           /\ log.invoked = 1
           /\ log.argPrompt = log.prompt
           /\ log.argFile = (IF log.file = Null THEN Undefined ELSE log.file)
           /\ prompt = ""
           /\ file = Null

\* A submit of text alone: the file argument is undefined.
C2_Witness ==
    /\ log.invoked = 1
    /\ log.file = Null
    /\ log.argFile = Undefined
    /\ log.argPrompt = "ab"
    /\ prompt = ""

\* C10: an onGenerate invocation that follows an earlier one was preceded,
\* since that earlier one, by an event that supplied content.
C10_NoRepeatWithoutNewContent ==
    (log.invoked > 0 /\ log.hadPrior) => log.suppliedBefore

\* A second invocation, made before the parent set isGenerating.
C10_Witness ==
    /\ log.invoked > 0
    /\ log.hadPrior
    /\ log.suppliedBefore
    /\ ~log.isGenerating

\* C8: an event delivered while disabled is true neither changes the
\* attached file nor invokes onGenerate.
C8_DisabledBlocksEvents ==
    (log.disabled /\ log.ev \in {"drop", "filechange", "click", "enter"}) =>
        (log.invoked = 0 /\ file = log.file)

\* C3: an invocation has issued exactly one generateContent call from the
\* await on, however the call ends.
C3_ExactlyOneCall ==
    /\ pc = "idle" => calls = 0
    /\ pc \in {"awaiting", "returned", "thrown"} => calls = 1

\* An invocation whose call failed.
C3_Witness == pc = "thrown" /\ settled.state = "rejected" /\ calls = 1

\* C4: a failed call ends the invocation by throwing that same error, with
\* nothing returned; a string is returned only after a successful call.
C4_FailureRethrown ==
    /\ settled.state = "rejected" =>
           (pc = "thrown" /\ thrown = settled.error /\ returned = Undefined)
    /\ pc = "returned" => (settled.state = "fulfilled" /\ returned.tag = "string")

\* The quota error of the API, thrown on to the caller.
C4_Witness ==
    /\ pc = "thrown"
    /\ settled = Rejected("QuotaExceeded")
    /\ thrown = "QuotaExceeded"

\* C7: the parts are one text part, first, then at most one inlineData
\* part, present exactly when fileBase64 and mimeType are both given, and
\* carrying them unchanged.
C7_PartsShape ==
    pc # "idle" =>
        /\ Len(request) \in {1, 2}
        /\ request[1].kind = "text"
        /\ \A i \in 2..Len(request) : request[i].kind = "inlineData"
        /\ (Len(request) = 2) <=>
               (TruthyArg(args.fileBase64) /\ TruthyArg(args.mimeType))
        /\ Len(request) = 2 =>
               /\ request[2].data = args.fileBase64
               /\ request[2].mimeType = args.mimeType

\* A request with the attachment.
C7_Witness ==
    /\ pc = "awaiting"
    /\ Len(request) = 2
    /\ request[2].data = Str("QUJD")
    /\ request[2].mimeType = Str("image/png")

TextHas(frag) ==
    \E i \in 1..Len(request[1].text) : request[1].text[i] = frag

\* C9: the text part carries the image preamble exactly when an inlineData
\* part is attached, and the demo instruction only without an attachment.
C9_PreambleIffAttachment ==
    pc # "idle" =>
        /\ TextHas(ImageContext) <=> (Len(request) = 2)
        /\ TextHas(DemoInstruction) => Len(request) = 1

\* C5: the returned text never begins with a fence.
C5_NoLeadingFence ==
    pc = "returned" => ~StartsWith(returned.val, Fence)

\* s without its trailing whitespace.
RECURSIVE TrimEnd(_)
TrimEnd(s) ==
    IF Len(s) > 0 /\ s[Len(s)] \in Whitespace
       THEN TrimEnd(SubSeq(s, 1, Len(s) - 1))
       ELSE s

\* The last non-whitespace content of s is a fence.
ClosesWithFence(s) == EndsWith(TrimEnd(s), Fence)

\* C6: when the response text closes with a fence, followed by whitespace
\* or not, the returned text does not.
C6_ClosingFenceTrimmed ==
    (pc = "returned" /\ settled.text.tag = "string"
        /\ ClosesWithFence(settled.text.val)) =>
        ~ClosesWithFence(returned.val)

====
